---- MODULE Spec2Model ----
(***************************************************************************)
(* A model of the PII redaction pipeline of piazza-summarizer:             *)
(*   text_cleaner.py   clean_text (entity decoding, whitespace)            *)
(*   name_detector.py  NameDetector (roster index, NER filter, redaction)  *)
(*   pii_remover.py    PIIRemover (clean_post, clean_posts_batch)          *)
(*                                                                         *)
(* A Python str is a sequence of one-character strings.  Python objects    *)
(* that can be aliased (dict, list) live in `heap`, a sequence of objects  *)
(* addressed by index; a value is a tagged record (str, none, int, ref).   *)
(***************************************************************************)
EXTENDS Integers, Sequences, FiniteSets, TLC

VARIABLES
    \* ---- the sanitizer session (PIIRemover and its NameDetector) ----
    heap,           \* every dict and list object, by address
    heap0,          \* the heap as the caller built it, before any call
    posts,          \* the list handed to clean_post / clean_posts_batch
    cleaned_posts,  \* clean_posts_batch: the list being built
    i,              \* clean_posts_batch: enumerate(posts, 1) position
    pc,             \* "new" | "failed" | "idle" | "loop" | "returned" |
                    \* "raised"
    faulted,        \* batch positions whose clean_post raised
    call,           \* the last direct clean_post call and its outcome
    ncalls,         \* number of direct clean_post calls made
    roster_names,   \* NameDetector.roster_names
    nlp,            \* the recognizer loaded by spacy.load
    set_order,      \* the order in which set() iterates its strings
    model_installed,\* whether spacy.load finds en_core_web_sm
    \* ---- one redaction of one text (NameDetector.redact_names) ----
    rtext,          \* the text being redacted
    rnames,         \* names_to_redact as list(set(found_names)) gave it
    redacted,       \* the returned text
    mask,           \* per character of redacted: written by a substitution
    redacted2,      \* the returned text redacted again with the same names
    rpc,            \* "start" | "done" | "again"
    \* ---- one normalization of one text (text_cleaner.clean_text) ----
    ntext,          \* the raw text
    normalized,     \* clean_text(ntext)
    normalized2,    \* clean_text(normalized)
    npc,            \* "start" | "done" | "again"
    \* ---- one text field through detection and sanitization ----
    all_users,      \* the 'name' values of the participant list
    ftext,          \* the field as the caller holds it
    fnames,         \* find_names_in_text(ftext)
    fclean,         \* _clean_field(ftext)
    fnames2,        \* find_names_in_text(fclean)
    fclean2,        \* _clean_field(fclean)
    fhit,           \* _is_roster_name(ftext)
    fseen,          \* the texts _clean_field has had the recognizer read
    fpc,            \* "start" | "checked" | "found" | "cleaned" | "again"
    \* ---- the cleaned posts through a JSONL file (JSONLHandler) ----
    file,           \* the characters of the file, or Missing
    wrote,          \* the mode of the last write: "w" | "a" | "none"
    loaded,         \* what JSONLHandler.read returned
    spc,            \* "start" | "written" | "read" | "raised"
    \* ---- one scraper session (PiazzaScraper) ----
    email,          \* PiazzaScraper.email
    password,       \* PiazzaScraper.password
    authenticated,  \* PiazzaScraper._authenticated
    network,        \* PiazzaScraper.network
    instructor_uids,\* PiazzaScraper.instructor_uids
    outcome,        \* the last call on the scraper and how it ended
    logged_in,      \* some login call has returned
    connected       \* some connect_to_course call obtained a network

sessionVars == <<heap, heap0, posts, cleaned_posts, i, pc, faulted, call,
                 ncalls, roster_names, nlp, set_order, model_installed>>
redactVars == <<rtext, rnames, redacted, mask, redacted2, rpc>>
normVars == <<ntext, normalized, normalized2, npc>>
fieldVars == <<all_users, ftext, fnames, fclean, fnames2, fclean2, fhit,
               fseen, fpc>>
storeVars == <<file, wrote, loaded, spc>>
scraperVars == <<email, password, authenticated, network, instructor_uids,
                 outcome, logged_in, connected>>
vars == <<sessionVars, redactVars, normVars, fieldVars, storeVars,
          scraperVars>>

----------------------------------------------------------------------------
(* Bounds *)

MaxLen == 3        \* longest text drawn for a single redaction
MaxNames == 2      \* most names in one names_to_redact list
MaxBatch == 2      \* longest list handed to clean_posts_batch
MaxCalls == 1      \* direct clean_post calls in one session

----------------------------------------------------------------------------
(* Strings *)

Range(s) == {s[k] : k \in 1..Len(s)}

\* F applied to the value of e, with e evaluated once
With(e, F(_)) == CHOOSE y \in {F(x) : x \in {e}} : TRUE

\* str.lower() on the characters of the model
Lower(c) ==
    CASE c = "A" -> "a" [] c = "B" -> "b" [] c = "E" -> "e"
      [] c = "L" -> "l" [] c = "M" -> "m" [] c = "N" -> "n"
      [] c = "O" -> "o" [] c = "T" -> "t" [] c = "X" -> "x"
      [] c = "J" -> "j" [] c = "S" -> "s"
      [] OTHER -> c

lower(s) == [k \in 1..Len(s) |-> Lower(s[k])]

IsSpace(c) == c \in {" ", "\n", "\t"}

Slice(s, a, b) == IF a > b THEN <<>> ELSE SubSeq(s, a, b)

\* str.strip()
RECURSIVE lstrip(_)
lstrip(s) == IF s # <<>> /\ IsSpace(s[1]) THEN lstrip(Tail(s)) ELSE s

RECURSIVE rstrip(_)
rstrip(s) ==
    IF s # <<>> /\ IsSpace(s[Len(s)]) THEN rstrip(Slice(s, 1, Len(s) - 1))
    ELSE s

strip(s) == With(s, LAMBDA x : With(lstrip(x), LAMBDA y : rstrip(y)))

\* every contiguous, non-empty piece of s
Substrings(s) ==
    {Slice(s, a, b) : a \in 1..Len(s), b \in 1..Len(s)} \ {<<>>}

\* does piece occur in s (exact case)
Occurs(piece, s) ==
    \E a \in 1..Len(s) :
        /\ a + Len(piece) - 1 <= Len(s)
        /\ Slice(s, a, a + Len(piece) - 1) = piece

\* does piece occur in s, ignoring case
OccursCI(piece, s) ==
    With(lower(piece), LAMBDA p : With(lower(s), LAMBDA x : Occurs(p, x)))

MaxOf(S) == IF S = {} THEN 0 ELSE CHOOSE n \in S : \A m \in S : m <= n

----------------------------------------------------------------------------
(* NameDetector.redact_names: the substitution loop *)

placeholder == <<"[", "N", "A", "M", "E", "]">>

\* A cell is one character of the text being rewritten, with a flag telling
\* whether a substitution wrote it (the flag is bookkeeping, re.sub sees c).
Cells(s, written) == [k \in 1..Len(s) |-> [c |-> s[k], m |-> written]]
Chars(cells) == [k \in 1..Len(cells) |-> cells[k].c]
Marks(cells) == [k \in 1..Len(cells) |-> cells[k].m]

\* a mutation of MatchAt: the pattern compiled without re.IGNORECASE
MatchAtCaseSensitive(cells, name, at) ==
    /\ at + Len(name) - 1 <= Len(cells)
    /\ \A k \in 1..Len(name) : cells[at + k - 1].c = name[k]

\* a mutation of MatchAt: the name matches as a whole word only
MatchAtWord(cells, name, at) ==
    /\ at + Len(name) - 1 <= Len(cells)
    /\ \A k \in 1..Len(name) : Lower(cells[at + k - 1].c) = Lower(name[k])
    /\ at = 1 \/ IsSpace(cells[at - 1].c)
    /\ at + Len(name) - 1 = Len(cells) \/ IsSpace(cells[at + Len(name)].c)

\* re.compile(re.escape(name), re.IGNORECASE) matching at position `at`
MatchAt(cells, name, at) ==
    /\ at + Len(name) - 1 <= Len(cells)
    /\ \A k \in 1..Len(name) : Lower(cells[at + k - 1].c) = Lower(name[k])

\* pattern.sub(placeholder, text): leftmost, non-overlapping, one pass
RECURSIVE sub_from(_, _, _, _)
sub_from(cells, name, ph, at) ==
    IF at > Len(cells) THEN <<>>
    ELSE IF MatchAt(cells, name, at)
         THEN Cells(ph, TRUE) \o sub_from(cells, name, ph, at + Len(name))
         ELSE <<cells[at]>> \o sub_from(cells, name, ph, at + 1)

pattern_sub(cells, name, ph) ==
    With(cells, LAMBDA x : sub_from(x, name, ph, 1))

\* names.sort(key=len, reverse=True): stable, longest first
RECURSIVE sort_from(_, _)
sort_from(names, n) ==
    IF n = 0 THEN <<>>
    ELSE SelectSeq(names, LAMBDA x : Len(x) = n) \o sort_from(names, n - 1)

sort_by_len(names) ==
    With(names, LAMBDA l :
        sort_from(l, MaxOf({Len(l[k]) : k \in 1..Len(l)})))

\* for name in names_to_redact: redacted_text = pattern.sub(...)
RECURSIVE redact_loop(_, _, _)
redact_loop(cells, names, ph) ==
    IF names = <<>> THEN cells
    ELSE With(pattern_sub(cells, Head(names), ph), LAMBDA x :
             redact_loop(x, Tail(names), ph))

\* a mutation of redact_cells: without names, nothing is returned
redact_cells_blank(text, names, ph) ==
    IF text = <<>> \/ names = <<>> THEN <<>>
    ELSE redact_loop(Cells(text, FALSE), sort_by_len(names), ph)

\* redact_names after find_names_in_text returned `names` (a list)
redact_cells(text, names, ph) ==
    IF text = <<>> THEN <<>>
    ELSE IF names = <<>> THEN Cells(text, FALSE)
    ELSE With(sort_by_len(names), LAMBDA sorted :
             redact_loop(Cells(text, FALSE), sorted, ph))

redact_with(text, names, ph) ==
    With(redact_cells(text, names, ph), LAMBDA cells : Chars(cells))

----------------------------------------------------------------------------
(* text_cleaner.py *)

\* html.entities.html5 restricted to the names that can be spelled with the
\* letters of the model's texts (A B a l m o p t); a character outside ASCII
\* is written as one cell holding its entity name in braces.
html5_names ==
    {<<"l", "t">>, <<"l", "t", ";">>, <<"l", "l", ";">>,
     <<"o", "l", "t", ";">>, <<"a", "m", "p">>, <<"a", "m", "p", ";">>}

html5(name) ==
    CASE name = <<"l", "t">> -> <<"<">>
      [] name = <<"l", "t", ";">> -> <<"<">>
      [] name = <<"l", "l", ";">> -> <<"{ll}">>
      [] name = <<"o", "l", "t", ";">> -> <<"{olt}">>
      [] name = <<"a", "m", "p">> -> <<"&">>
      [] name = <<"a", "m", "p", ";">> -> <<"&">>

\* the characters the named branch of html._charref stops at:
\* [^\t\n\f <&#;]{1,32};?   (no text of the model holds a run of 32)
IsRefChar(c) == c \notin {"\t", "\n", "\f", " ", "<", "&", "#", ";"}

\* the decimal branch of html._charref: #[0-9]+;?   (the hexadecimal branch
\* needs "#x", which no text of the model holds)
IsDigit(c) == c \in {"0", "1", "2", "3", "4", "5", "6", "7", "8", "9"}

DigitVal(c) ==
    CASE c = "0" -> 0 [] c = "1" -> 1 [] c = "2" -> 2 [] c = "3" -> 3
      [] c = "4" -> 4 [] c = "5" -> 5 [] c = "6" -> 6 [] c = "7" -> 7
      [] c = "8" -> 8 [] c = "9" -> 9

RECURSIVE digit_run(_, _)
digit_run(s, at) ==
    IF at <= Len(s) /\ IsDigit(s[at]) THEN 1 + digit_run(s, at + 1) ELSE 0

\* int(digits)
RECURSIVE int_of(_)
int_of(d) ==
    IF d = <<>> THEN 0
    ELSE 10 * int_of(Slice(d, 1, Len(d) - 1)) + DigitVal(d[Len(d)])

\* chr(num) for the code points the numeric references of the model's
\* texts name (all of them valid code points)
chr(num) ==
    CASE num = 9 -> "\t" [] num = 10 -> "\n" [] num = 32 -> " "
      [] num = 38 -> "&" [] num = 39 -> "'" [] num = 60 -> "<"

\* html._replace_charref for a numeric reference
numeric_charref(d) == <<chr(int_of(d))>>

RECURSIVE ref_run(_, _)
ref_run(s, at) ==
    IF at <= Len(s) /\ IsRefChar(s[at]) THEN 1 + ref_run(s, at + 1) ELSE 0

\* html._replace_charref for a named reference: the name itself, else the
\* longest prefix of two or more characters that is a name, else "&" + s
RECURSIVE longest_prefix(_, _)
longest_prefix(g, x) ==
    IF x < 2 THEN <<"&">> \o g
    ELSE IF Slice(g, 1, x) \in html5_names
         THEN html5(Slice(g, 1, x)) \o Slice(g, x + 1, Len(g))
         ELSE longest_prefix(g, x - 1)

replace_charref(g) ==
    With(g, LAMBDA x :
        IF x \in html5_names THEN html5(x) ELSE longest_prefix(x, Len(x) - 1))

\* html.unescape: _charref.sub(_replace_charref, s), one pass, left to right
RECURSIVE unescape_from(_, _)
unescape_from(s, at) ==
    IF at > Len(s) THEN <<>>
    ELSE IF s[at] = "&" /\ at < Len(s) /\ s[at + 1] = "#"
            /\ digit_run(s, at + 2) > 0
         THEN With(digit_run(s, at + 2), LAMBDA n :
                  With(IF at + n + 2 <= Len(s) /\ s[at + n + 2] = ";"
                       THEN 1 ELSE 0, LAMBDA semi :
                      numeric_charref(Slice(s, at + 2, at + n + 1))
                          \o unescape_from(s, at + n + semi + 2)))
    ELSE IF s[at] = "&" /\ ref_run(s, at + 1) > 0
         THEN With(ref_run(s, at + 1), LAMBDA n :
                  With(IF at + n + 1 <= Len(s) /\ s[at + n + 1] = ";"
                       THEN 1 ELSE 0, LAMBDA semi :
                      replace_charref(Slice(s, at + 1, at + n + semi))
                          \o unescape_from(s, at + n + semi + 1)))
         ELSE <<s[at]>> \o unescape_from(s, at + 1)

\* clean_html_entities (html.unescape raises on no str)
clean_html_entities(text) ==
    IF text = <<>> THEN <<>> ELSE With(text, LAMBDA s : unescape_from(s, 1))

\* re.sub(r' +', ' ', text)
RECURSIVE collapse_spaces(_)
collapse_spaces(s) ==
    IF s = <<>> THEN <<>>
    ELSE IF s[1] = " " /\ Len(s) > 1 /\ s[2] = " "
         THEN collapse_spaces(Tail(s))
         ELSE <<s[1]>> \o collapse_spaces(Tail(s))

\* re.sub(r'\n\n+', '\n\n', text)
RECURSIVE collapse_newlines(_)
collapse_newlines(s) ==
    IF s = <<>> THEN <<>>
    ELSE IF s[1] = "\n" /\ Len(s) > 2 /\ s[2] = "\n" /\ s[3] = "\n"
         THEN collapse_newlines(Tail(s))
         ELSE <<s[1]>> \o collapse_newlines(Tail(s))

\* a mutation of clean_extra_whitespace: the ends are left as they are
collapse_without_strip(text) ==
    IF text = <<>> THEN <<>>
    ELSE With(collapse_spaces(text), LAMBDA a : collapse_newlines(a))

clean_extra_whitespace(text) ==
    IF text = <<>> THEN <<>>
    ELSE With(collapse_spaces(text), LAMBDA a :
             With(collapse_newlines(a), LAMBDA b : strip(b)))

clean_text(text) ==
    IF text = <<>> THEN <<>>
    ELSE With(clean_html_entities(text), LAMBDA decoded :
             clean_extra_whitespace(decoded))

----------------------------------------------------------------------------
(* name_detector.py: roster index and detection *)

\* str.split(): the maximal runs of non-whitespace characters, as a set
split(s) ==
    {w \in {Slice(s, a, b) :
               a \in {x \in 1..Len(s) : x = 1 \/ IsSpace(s[x - 1])},
               b \in {x \in 1..Len(s) : x = Len(s) \/ IsSpace(s[x + 1])}} :
        w # <<>> /\ \A k \in 1..Len(w) : ~IsSpace(w[k])}

\* a mutation of extract_roster_names: one-letter parts are kept
extract_every_part(users) ==
    UNION {IF full_name = <<>> THEN {}
           ELSE {lower(full_name)} \cup
                {lower(part) : part \in split(full_name)}
           : full_name \in {strip(users[u]) : u \in 1..Len(users)}}

\* NameDetector._extract_roster_names; users is the list of 'name' values
extract_roster_names(users) ==
    UNION {IF full_name = <<>> THEN {}
           ELSE {lower(full_name)} \cup
                {lower(part) : part \in {w \in split(full_name) : Len(w) > 1}}
           : full_name \in {strip(users[u]) : u \in 1..Len(users)}}

\* a mutation of is_roster_name: the candidate is compared as it is written
is_roster_name_exact(name) ==
    \/ name \in roster_names
    \/ \E part \in split(name) : part \in roster_names

\* a mutation of is_roster_name: every name counts as a roster name
any_name(name) == TRUE

\* NameDetector._is_roster_name
is_roster_name(name) ==
    With(lower(name), LAMBDA name_lower :
        \/ name_lower \in roster_names
        \/ \E part \in split(name_lower) : part \in roster_names)

\* doc.ents of self.nlp(text): nlp.ents are the spans the recognizer
\* labels where they stand in a text, nlp.misses the <<text, span>> pairs
\* where, in that text, it does not, and nlp.raises the texts it raises on
doc_ents(text) ==
    {e \in nlp.ents : Occurs(e.text, text) /\ <<text, e.text>> \notin nlp.misses}

\* list(set(found_names)): the names in the order set() iterates them
list_of_set(S) == SelectSeq(set_order, LAMBDA x : x \in S)

\* a mutation of find_names_in_text: as if the recognizer had not failed
find_names_unguarded(text) ==
    IF text = <<>> THEN <<>>
    ELSE list_of_set({strip(e.text) :
                        e \in {d \in doc_ents(text) :
                                 /\ d.label = "PERSON"
                                 /\ is_roster_name(strip(d.text))}})

\* a mutation of find_names_in_text: every PERSON span is returned
find_names_unfiltered(text) ==
    IF text = <<>> THEN <<>>
    ELSE IF text \in nlp.raises THEN <<>>
    ELSE list_of_set({strip(e.text) :
                        e \in {d \in doc_ents(text) : d.label = "PERSON"}})

\* NameDetector.find_names_in_text
find_names_in_text(text) ==
    IF text = <<>> THEN <<>>
    ELSE IF text \in nlp.raises THEN <<>>
    ELSE list_of_set({strip(e.text) :
                        e \in {d \in doc_ents(text) :
                                 /\ d.label = "PERSON"
                                 /\ is_roster_name(strip(d.text))}})

\* NameDetector.redact_names
redact_names(text) ==
    IF text = <<>> THEN <<>>
    ELSE With(find_names_in_text(text), LAMBDA names_to_redact :
             redact_with(text, names_to_redact, placeholder))

----------------------------------------------------------------------------
(* Python values and objects *)

Str(s) == [t |-> "str", s |-> s]
Num(n) == [t |-> "int", n |-> n]
Ref(a) == [t |-> "ref", a |-> a]
None == [t |-> "none"]

Dict(f) == [k |-> "dict", f |-> f]
List(items) == [k |-> "list", items |-> items]

IsDict(h, v) == v.t = "ref" /\ h[v.a].k = "dict"
IsList(h, v) == v.t = "ref" /\ h[v.a].k = "list"

\* bool(v)
Truthy(h, v) ==
    CASE v.t = "none" -> FALSE
      [] v.t = "str" -> v.s # <<>>
      [] v.t = "int" -> v.n # 0
      [] v.t = "ref" -> IF h[v.a].k = "dict" THEN DOMAIN h[v.a].f # {}
                        ELSE h[v.a].items # <<>>

\* d.get(key, default) on a dict d
Get(h, d, key, default) ==
    IF key \in DOMAIN h[d.a].f THEN h[d.a].f[key] ELSE default

\* the items of a list value (none for anything else)
Items(h, v) == IF IsList(h, v) THEN h[v.a].items ELSE <<>>

\* a new object
Alloc(h, obj) == [h |-> Append(h, obj), v |-> Ref(Len(h) + 1)]

\* the outcome of a call: the heap it leaves, whether it returned, its value
Ok(h, v) == [h |-> h, ok |-> TRUE, v |-> v]
Raise(h) == [h |-> h, ok |-> FALSE, v |-> None]

\* a mutation of dict_copy: the same object, not a copy of it
dict_alias(h, d) == IF IsDict(h, d) THEN Ok(h, d) ELSE Raise(h)

\* d.copy(): a new dict with the same items (shallow); on a value that is
\* no dict the call, or the .get that follows it, raises
dict_copy(h, d) ==
    IF IsDict(h, d)
    THEN With(Alloc(h, Dict(h[d.a].f)), LAMBDA n : Ok(n.h, n.v))
    ELSE Raise(h)

\* d[key] = value
set_item(h, d, key, value) ==
    [h EXCEPT ![d.a] = Dict((key :> value) @@ h[d.a].f)]

----------------------------------------------------------------------------
(* pii_remover.py *)

\* a mutation of field_stages: names are detected and replaced in the raw
\* text, and the result is normalized afterwards
field_stages_raw(text) ==
    [given |-> {text}, redacted |-> clean_text(redact_names(text))]

\* the body of _clean_field on a str that is not empty: clean_text, then
\* redact_names on what it returned, which has the recognizer read that
\* same text unless it is empty
field_stages(text) ==
    With(clean_text(text), LAMBDA cleaned :
        [given |-> IF cleaned = <<>> THEN {} ELSE {cleaned},
         redacted |-> redact_names(cleaned)])

\* PIIRemover._clean_field: a value that is no str raises in clean_text
\* (re.sub in clean_extra_whitespace, after clean_html_entities gave the
\* value back)
clean_field(h, text) ==
    IF ~Truthy(h, text) THEN Ok(h, Str(<<>>))
    ELSE IF text.t = "str"
         THEN Ok(h, Str(field_stages(text.s).redacted))
         ELSE Raise(h)

\* a mutation of clean_record: the copy keeps its raw content
copy_record(h, rec) == dict_copy(h, rec)

\* x = rec.copy(); x['content'] = self._clean_field(rec.get('content', ''))
\* as _clean_answer, and _clean_followups for a followup and for a reply, do
clean_record(h, rec) ==
    With(dict_copy(h, rec), LAMBDA c :
        IF ~c.ok THEN c
        ELSE With(clean_field(c.h, Get(c.h, rec, "content", Str(<<>>))),
                  LAMBDA t :
                      IF ~t.ok THEN Raise(c.h)
                      ELSE Ok(set_item(c.h, c.v, "content", t.v), c.v)))

\* PIIRemover._clean_answer
clean_answer(h, answer) ==
    IF ~Truthy(h, answer) THEN Ok(h, None) ELSE clean_record(h, answer)

\* a mutation of replies_loop: each cleaned reply is put first
RECURSIVE replies_prepend(_, _, _)
replies_prepend(h, replies, done) ==
    IF replies = <<>> THEN Ok(h, done)
    ELSE With(clean_record(h, Head(replies)), LAMBDA r :
             IF ~r.ok THEN Raise(r.h)
             ELSE With(<<r.v>> \o done, LAMBDA d :
                      With(Tail(replies), LAMBDA rest :
                          replies_prepend(r.h, rest, d))))

\* for reply in followup['replies']: ... cleaned_replies.append(cleaned_reply)
RECURSIVE replies_loop(_, _, _)
replies_loop(h, replies, done) ==
    IF replies = <<>> THEN Ok(h, done)
    ELSE With(clean_record(h, Head(replies)), LAMBDA r :
             IF ~r.ok THEN Raise(r.h)
             ELSE With(Append(done, r.v), LAMBDA d :
                      With(Tail(replies), LAMBDA rest :
                          replies_loop(r.h, rest, d))))

\* cleaned_followup['replies'] = cleaned_replies, after the loop filled it
set_replies(c, replies) ==
    With(replies_loop(c.h, Items(c.h, replies), <<>>), LAMBDA l :
        IF ~l.ok THEN Raise(l.h)
        ELSE With(Alloc(l.h, List(l.v)), LAMBDA n :
                 Ok(set_item(n.h, c.v, "replies", n.v), c.v)))

\* the body of `for followup in followups`
clean_followup(h, followup) ==
    With(clean_record(h, followup), LAMBDA c :
        IF ~c.ok THEN c
        ELSE With(Get(c.h, followup, "replies", None), LAMBDA replies :
                 IF ~Truthy(c.h, replies) THEN c
                 ELSE IF ~IsList(c.h, replies) THEN Raise(c.h)
                 ELSE set_replies(c, replies)))

RECURSIVE followups_loop(_, _, _)
followups_loop(h, followups, done) ==
    IF followups = <<>> THEN Ok(h, done)
    ELSE With(clean_followup(h, Head(followups)), LAMBDA f :
             IF ~f.ok THEN Raise(f.h)
             ELSE With(Append(done, f.v), LAMBDA d :
                      With(Tail(followups), LAMBDA rest :
                          followups_loop(f.h, rest, d))))

\* PIIRemover._clean_followups (reached with a truthy value only)
clean_followups(h, followups) ==
    IF ~IsList(h, followups) THEN Raise(h)
    ELSE With(followups_loop(h, Items(h, followups), <<>>), LAMBDA l :
             IF ~l.ok THEN Raise(l.h)
             ELSE With(Alloc(l.h, List(l.v)), LAMBDA n : Ok(n.h, n.v)))

\* cleaned_post[key] = self._clean_field(post.get(key, ''))
field_step(r, post, key) ==
    IF ~r.ok THEN r
    ELSE With(clean_field(r.h, Get(r.h, post, key, Str(<<>>))), LAMBDA t :
             IF ~t.ok THEN Raise(r.h)
             ELSE Ok(set_item(r.h, r.v, key, t.v), r.v))

\* if post.get(key): cleaned_post[key] = self._clean_answer(post[key])
answer_step(r, post, key) ==
    IF ~r.ok THEN r
    ELSE IF ~Truthy(r.h, Get(r.h, post, key, None)) THEN r
    ELSE With(clean_answer(r.h, Get(r.h, post, key, None)), LAMBDA a :
             IF ~a.ok THEN Raise(a.h)
             ELSE Ok(set_item(a.h, r.v, key, a.v), r.v))

\* if post.get('followups'): cleaned_post['followups'] = ...
followups_step(r, post) ==
    IF ~r.ok THEN r
    ELSE IF ~Truthy(r.h, Get(r.h, post, "followups", None)) THEN r
    ELSE With(clean_followups(r.h, Get(r.h, post, "followups", None)),
              LAMBDA f :
                  IF ~f.ok THEN Raise(f.h)
                  ELSE Ok(set_item(f.h, r.v, "followups", f.v), r.v))

\* PIIRemover.clean_post
clean_post(h, post) ==
    With(dict_copy(h, post), LAMBDA r0 :
    With(field_step(r0, post, "subject"), LAMBDA r1 :
    With(field_step(r1, post, "content"), LAMBDA r2 :
    With(answer_step(r2, post, "student_answer"), LAMBDA r3 :
    With(answer_step(r3, post, "instructor_answer"), LAMBDA r4 :
        followups_step(r4, post))))))

----------------------------------------------------------------------------
(* The records a caller hands to the sanitizer *)

TextA == <<"A", "l", " ", " ", "B", "o">>
TextE == <<"&", "l", "t", ";", " ", "A", "l">>

Absent == [t |-> "absent"]
Fields(rec) == [key \in {x \in DOMAIN rec : rec[x].t # "absent"} |-> rec[key]]
Keep(h, v) == [h |-> h, v |-> v]

\* an answer as PiazzaScraper._extract_answer builds it, or a value that
\* is no answer record
mk_answer(h, kind, text) ==
    CASE kind = "none" -> Keep(h, None)
      [] kind = "dict" ->
           Alloc(h, Dict([content |-> Str(text), created |-> Num(5)]))
      [] kind = "endorsed" ->
           With(Alloc(h, List(<<Num(9)>>)), LAMBDA e :
               Alloc(e.h, Dict([content |-> Str(text), created |-> Num(5),
                                endorsed_by |-> e.v])))
      [] kind = "nocontent" -> Alloc(h, Dict([created |-> Num(5)]))
      [] kind = "bad" -> Keep(h, Str(text))

\* a reply record; with nested, it is a followup carrying replies of its own
mk_reply(h, nested, text) ==
    IF nested
    THEN With(Alloc(h, Dict([type |-> Str(<<"feedback">>),
                             content |-> Str(text),
                             author_type |-> Str(<<"student">>)])),
              LAMBDA r :
         With(Alloc(r.h, List(<<r.v>>)), LAMBDA l :
             Alloc(l.h, Dict([type |-> Str(<<"followup">>),
                              content |-> Str(text),
                              author_type |-> Str(<<"student">>),
                              replies |-> l.v]))))
    ELSE Alloc(h, Dict([type |-> Str(<<"feedback">>), content |-> Str(text),
                        author_type |-> Str(<<"instructor">>)]))

\* two followups, the first one with two replies; every record differs
\* from its neighbour in type or author_type
mk_thread(h, text) ==
    With(mk_reply(h, FALSE, text), LAMBDA r1 :
    With(Alloc(r1.h, Dict([type |-> Str(<<"followup">>),
                           content |-> Str(text), created |-> Num(3),
                           author_type |-> Str(<<"student">>)])),
         LAMBDA r2 :
    With(Alloc(r2.h, List(<<r1.v, r2.v>>)), LAMBDA l1 :
    With(Alloc(l1.h, Dict([content |-> Str(text), created |-> Num(2),
                           author_type |-> Str(<<"student">>),
                           replies |-> l1.v])), LAMBDA f1 :
    With(Alloc(f1.h, List(<<>>)), LAMBDA l2 :
    With(Alloc(l2.h, Dict([content |-> Str(text), created |-> Num(4),
                           author_type |-> Str(<<"instructor">>),
                           replies |-> l2.v])), LAMBDA f2 :
        Alloc(f2.h, List(<<f1.v, f2.v>>))))))))

\* the followups list as PiazzaScraper._extract_followups_with_replies
\* builds it, or a value that is no such list
mk_followups(h, kind, text) ==
    CASE kind = "none" -> Keep(h, None)
      [] kind = "empty" -> Alloc(h, List(<<>>))
      [] kind = "thread" -> mk_thread(h, text)
      [] kind \in {"flat", "replies", "nested", "badreply"} ->
           With(CASE kind = "flat" -> Alloc(h, List(<<>>))
                  [] kind = "badreply" -> Alloc(h, List(<<None>>))
                  [] OTHER -> With(mk_reply(h, kind = "nested", text),
                                   LAMBDA r : Alloc(r.h, List(<<r.v>>))),
                LAMBDA l :
           With(Alloc(l.h, Dict([content |-> Str(text),
                                 author_type |-> Str(<<"student">>),
                                 replies |-> l.v])), LAMBDA f :
               Alloc(f.h, List(<<f.v>>))))

\* a post as PiazzaScraper._structure_post builds it; a template that is no
\* record at all gives None
mk_post(h, t) ==
    IF ~t.record THEN Keep(h, None)
    ELSE With(IF t.folders THEN Alloc(h, List(<<Str(<<"hw1">>)>>))
              ELSE Keep(h, Absent), LAMBDA fo :
         With(mk_answer(fo.h, t.sa, TextE), LAMBDA sa :
         With(mk_answer(sa.h, t.ia, TextA), LAMBDA ia :
         With(mk_followups(ia.h, t.fu, TextA), LAMBDA fu :
             Alloc(fu.h, Dict(Fields([post_id |-> Num(t.id),
                                      post_number |-> Num(t.id + 10),
                                      created |-> Num(1),
                                      is_public |-> Num(1),
                                      subject |-> t.subject,
                                      content |-> t.content,
                                      folders |-> fo.v,
                                      student_answer |-> sa.v,
                                      instructor_answer |-> ia.v,
                                      followups |-> fu.v])))))))

RECURSIVE load(_, _, _)
load(h, templates, done) ==
    IF templates = <<>> THEN Keep(h, done)
    ELSE With(mk_post(h, Head(templates)), LAMBDA p :
             With(Append(done, p.v), LAMBDA d :
                 With(Tail(templates), LAMBDA rest : load(p.h, rest, d))))

Template(id, subject, content, folders, sa, ia, fu) ==
    [record |-> TRUE, id |-> id, subject |-> subject, content |-> content,
     folders |-> folders, sa |-> sa, ia |-> ia, fu |-> fu]

Templates ==
    {Template(1, Str(TextA), Str(TextE), TRUE, "none", "none", "empty"),
     Template(2, Str(TextE), Str(TextA), TRUE, "endorsed", "dict", "thread"),
     Template(3, Absent, None, FALSE, "none", "nocontent", "nested"),
     Template(4, Str(TextA), Num(7), TRUE, "dict", "none", "replies"),
     Template(5, Str(TextA), Str(TextA), FALSE, "bad", "none", "flat"),
     Template(6, Str(TextE), Str(<<>>), FALSE, "none", "dict", "badreply"),
     [record |-> FALSE]}

----------------------------------------------------------------------------
(* One redaction of one text *)

RedactAlphabet == {"a", "A", "m", " "}

RECURSIVE TextsUpTo(_)
TextsUpTo(n) ==
    IF n = 0 THEN {<<>>}
    ELSE LET shorter == TextsUpTo(n - 1)
         IN shorter \cup {Append(t, c) : t \in shorter, c \in RedactAlphabet}

\* what find_names_in_text can return for a text: ent.text.strip() of spans
NameCandidates(text) == {strip(s) : s \in Substrings(text)} \ {<<>>}

\* lists without repetition of at most n elements of S
RECURSIVE ListsOf(_, _)
ListsOf(S, n) ==
    IF n = 0 THEN {<<>>}
    ELSE LET shorter == ListsOf(S, n - 1)
         IN shorter \cup
            UNION {{Append(l, x) : x \in S \ Range(l)} : l \in shorter}

John == <<"J", "o", "h", "n">>
JohnSmith == John \o <<" ", "S", "m", "i", "t", "h">>

\* "John Smith and John talked."
TextJohn ==
    JohnSmith \o <<" ", "a", "n", "d", " ">> \o John
    \o <<" ", "t", "a", "l", "k", "e", "d", ".">>

\* a text and the names found in it: every short text over the alphabet
\* with names that occur in it, and the sentence about John Smith
RedactInit ==
    /\ \/ /\ rtext \in TextsUpTo(MaxLen)
          /\ rnames \in ListsOf(NameCandidates(rtext), MaxNames)
       \/ /\ rtext = TextJohn
          /\ rnames \in {<<JohnSmith, John>>, <<John, JohnSmith>>}
    /\ redacted = <<>>
    /\ mask = <<>>
    /\ redacted2 = <<>>
    /\ rpc = "start"

SessionIdle ==
    /\ heap = <<>> /\ heap0 = <<>> /\ posts = <<>> /\ cleaned_posts = <<>>
    /\ i = 0 /\ pc = "idle" /\ faulted = {} /\ ncalls = 0
    /\ call = [state |-> "none"]
    /\ roster_names = {}
    /\ nlp = [raises |-> {}, ents |-> {}, misses |-> {}]
    /\ set_order = <<>>
    /\ model_installed = TRUE

NormIdle ==
    /\ ntext = <<>> /\ normalized = <<>> /\ normalized2 = <<>>
    /\ npc = "again"

FieldIdle ==
    /\ all_users = <<>> /\ ftext = <<>> /\ fnames = <<>> /\ fclean = <<>>
    /\ fnames2 = <<>> /\ fclean2 = <<>> /\ fhit = FALSE /\ fseen = {}
    /\ fpc = "again"

\* no file at the path
Missing == [exists |-> FALSE]

StoreIdle ==
    /\ file = Missing /\ wrote = "none" /\ loaded = <<>> /\ spc = "read"

ScraperIdle ==
    /\ email = None /\ password = None /\ authenticated = FALSE
    /\ network = None /\ instructor_uids = {}
    /\ outcome = [op |-> "none"]
    /\ logged_in = FALSE /\ connected = FALSE

\* detector.redact_names(text) from the point where the names are known
RedactNames ==
    /\ rpc = "start"
    /\ \E cells \in {redact_cells(rtext, rnames, placeholder)} :
          /\ redacted' = Chars(cells)
          /\ mask' = Marks(cells)
    /\ rpc' = "done"
    /\ UNCHANGED <<rtext, rnames, redacted2, sessionVars, normVars,
                   fieldVars, storeVars, scraperVars>>

\* detector.redact_names run again on the text it returned, the names
\* being the same as in the first run
RedactAgain ==
    /\ rpc = "done"
    /\ redacted2' = redact_with(redacted, rnames, placeholder)
    /\ rpc' = "again"
    /\ UNCHANGED <<rtext, rnames, redacted, mask, sessionVars, normVars,
                   fieldVars, storeVars, scraperVars>>

----------------------------------------------------------------------------
(* The sanitizer session *)

Al == <<"A", "l">>
Bo == <<"B", "o">>
Person(s) == [text |-> s, label |-> "PERSON"]
Org(s) == [text |-> s, label |-> "ORG"]

\* the participant lists a PIIRemover is constructed with ('name' values)
UserLists == {<<>>, <<Al \o <<" ">> \o Bo>>}

\* the recognizers: what each labels, and the texts each raises on
NlpModels ==
    {[ents |-> {}, raises |-> {}, misses |-> {}],
     [ents |-> {Person(Al)}, raises |-> {}, misses |-> {}],
     [ents |-> {Person(Al), Person(Bo)}, raises |-> {}, misses |-> {}],
     [ents |-> {Person(Al), Org(Bo)}, raises |-> {}, misses |-> {}],
     [ents |-> {Person(Al), Person(Bo)}, raises |-> {clean_text(TextA)},
      misses |-> {}],
     [ents |-> {Person(Al), Person(Bo)}, raises |-> {},
      misses |-> {<<clean_text(TextA), Bo>>}]}

Permutations_of(S) ==
    {l \in ListsOf(S, Cardinality(S)) : Len(l) = Cardinality(S)}

Batches == UNION {[1..n -> Templates] : n \in 0..MaxBatch}

RedactIdle ==
    /\ rtext = <<>> /\ rnames = <<>> /\ redacted = <<>> /\ mask = <<>>
    /\ redacted2 = <<>> /\ rpc = "again"

\* a mutation of detector_init: the OSError is swallowed and the detector
\* is built without a recognizer
detector_init_degraded(installed, users) ==
    [ok |-> TRUE, roster |-> extract_roster_names(users)]

\* NameDetector.__init__: spacy.load under the try, whose except clause
\* logs and raises again; then the roster index
detector_init(installed, users) ==
    IF ~installed THEN [ok |-> FALSE, roster |-> {}]
    ELSE [ok |-> TRUE, roster |-> extract_roster_names(users)]

\* the caller holds a list of records and is about to build a PIIRemover;
\* nlp is what spacy.load returns where the model is installed
SessionInit ==
    /\ model_installed \in BOOLEAN
    /\ roster_names = {}
    /\ nlp \in IF model_installed THEN NlpModels
              ELSE {[ents |-> {}, raises |-> {}, misses |-> {}]}
    /\ set_order \in Permutations_of({strip(e.text) : e \in nlp.ents})
    /\ \E l \in {load(<<>>, batch, <<>>) : batch \in Batches} :
          heap = l.h /\ heap0 = l.h /\ posts = l.v
    /\ cleaned_posts = <<>>
    /\ i = 0
    /\ pc = "new"
    /\ faulted = {}
    /\ call = [state |-> "none"]
    /\ ncalls = 0

\* remover = PIIRemover(all_users): self.name_detector =
\* NameDetector(all_users), whose exception leaves the caller no remover
Construct ==
    /\ pc = "new"
    /\ \E users \in UserLists :
          \E d \in {detector_init(model_installed, users)} :
             IF d.ok THEN roster_names' = d.roster /\ pc' = "idle"
             ELSE pc' = "failed" /\ UNCHANGED roster_names
    /\ UNCHANGED <<heap, heap0, posts, cleaned_posts, i, faulted, call,
                   ncalls, nlp, set_order, model_installed, redactVars,
                   normVars, fieldVars, storeVars, scraperVars>>

\* remover.clean_post(posts[k])
CallCleanPost ==
    /\ pc = "idle"
    /\ ncalls < MaxCalls
    /\ \E k \in 1..Len(posts) :
          \E r \in {clean_post(heap, posts[k])} :
             /\ heap' = r.h
             /\ call' = [state |-> IF r.ok THEN "returned" ELSE "raised",
                         arg |-> posts[k], ret |-> r.v]
    /\ ncalls' = ncalls + 1
    /\ UNCHANGED <<heap0, posts, cleaned_posts, i, pc, faulted, roster_names,
                   nlp, set_order, model_installed, redactVars, normVars,
                   fieldVars, storeVars, scraperVars>>

\* a mutation of append_cleaned: the cleaned post put first
insert_cleaned(out, cleaned) == <<cleaned>> \o out

\* cleaned_posts.append(cleaned)
append_cleaned(out, cleaned) == Append(out, cleaned)

\* a mutation of append_original: the post that failed is dropped
drop_original(out, post) == out

\* cleaned_posts.append(post), in the except clause
append_original(out, post) == Append(out, post)

\* remover.clean_posts_batch(posts): up to the loop (a caller makes direct
\* clean_post calls on a remover, or hands it one batch)
BatchStart ==
    /\ pc = "idle"
    /\ ncalls = 0
    /\ pc' = "loop"
    /\ cleaned_posts' = <<>>
    /\ i' = 1
    /\ UNCHANGED <<heap, heap0, posts, faulted, call, ncalls, roster_names,
                   nlp, set_order, model_installed, redactVars, normVars,
                   fieldVars, storeVars, scraperVars>>

\* a mutation of BatchIter: a post that fails empties the roster index
BatchIterForgetful ==
    /\ pc = "loop"
    /\ i <= Len(posts)
    /\ \E post \in {posts[i]} : \E r \in {clean_post(heap, post)} :
          /\ heap' = r.h
          /\ IF r.ok
             THEN /\ cleaned_posts' = append_cleaned(cleaned_posts, r.v)
                  /\ i' = i + 1
                  /\ UNCHANGED <<pc, faulted, roster_names>>
             ELSE IF IsDict(r.h, post)
             THEN /\ cleaned_posts' = append_original(cleaned_posts, post)
                  /\ faulted' = faulted \cup {i}
                  /\ i' = i + 1
                  /\ roster_names' = {}
                  /\ UNCHANGED pc
             ELSE /\ pc' = "raised"
                  /\ UNCHANGED <<cleaned_posts, i, faulted, roster_names>>
    /\ UNCHANGED <<heap0, posts, call, ncalls, nlp, set_order,
                   model_installed, redactVars, normVars, fieldVars,
                   storeVars, scraperVars>>

\* one turn of `for i, post in enumerate(posts, 1)`: the try, and on an
\* exception the except clause, whose post.get('post_id') raises in turn
\* when the post is no dict
BatchIter ==
    /\ pc = "loop"
    /\ i <= Len(posts)
    /\ \E post \in {posts[i]} : \E r \in {clean_post(heap, post)} :
          /\ heap' = r.h
          /\ IF r.ok
             THEN /\ cleaned_posts' = append_cleaned(cleaned_posts, r.v)
                  /\ i' = i + 1
                  /\ UNCHANGED <<pc, faulted>>
             ELSE IF IsDict(r.h, post)
             THEN /\ cleaned_posts' = append_original(cleaned_posts, post)
                  /\ faulted' = faulted \cup {i}
                  /\ i' = i + 1
                  /\ UNCHANGED pc
             ELSE /\ pc' = "raised"
                  /\ UNCHANGED <<cleaned_posts, i, faulted>>
    /\ UNCHANGED <<heap0, posts, call, ncalls, roster_names, nlp, set_order,
                   model_installed, redactVars, normVars, fieldVars,
                   storeVars, scraperVars>>

\* the loop is over: return cleaned_posts
BatchReturn ==
    /\ pc = "loop"
    /\ i > Len(posts)
    /\ pc' = "returned"
    /\ UNCHANGED <<heap, heap0, posts, cleaned_posts, i, faulted, call,
                   ncalls, roster_names, nlp, set_order, model_installed,
                   redactVars, normVars, fieldVars, storeVars, scraperVars>>

Init ==
    SessionInit /\ RedactIdle /\ NormIdle /\ FieldIdle /\ StoreIdle
    /\ ScraperIdle
Next ==
    Construct \/ CallCleanPost \/ BatchStart \/ BatchIter \/ BatchReturn
Spec == Init /\ [][Next]_vars

InitRedact ==
    RedactInit /\ SessionIdle /\ NormIdle /\ FieldIdle /\ StoreIdle
    /\ ScraperIdle
NextRedact == RedactNames \/ RedactAgain
SpecRedact == InitRedact /\ [][NextRedact]_vars

----------------------------------------------------------------------------
(* One normalization of one text *)

MaxPieces == 3     \* most pieces in one raw text

\* what raw texts are made of: character references with and without the
\* ampersand that opens them, whitespace, a word
NormPieces ==
    {<<"&", "a", "m", "p", ";">>, <<"&", "l", "t", ";">>, <<"l", "t", ";">>,
     <<"&", "#", "3", "9", ";">>, <<" ">>, <<"\n">>, <<"A", "l">>, <<"&">>}

RECURSIVE PiecesUpTo(_)
PiecesUpTo(n) ==
    IF n = 0 THEN {<<>>}
    ELSE LET shorter == PiecesUpTo(n - 1)
         IN shorter \cup {t \o q : t \in shorter, q \in NormPieces}

\* "I&#39;m confused" and "Smith &amp; Jones"
TextConfused ==
    <<"I", "&", "#", "3", "9", ";", "m", " ",
      "c", "o", "n", "f", "u", "s", "e", "d">>
TextSmith ==
    <<"S", "m", "i", "t", "h", " ", "&", "a", "m", "p", ";", " ",
      "J", "o", "n", "e", "s">>

NormInit ==
    /\ ntext \in PiecesUpTo(MaxPieces) \cup {TextConfused, TextSmith}
    /\ normalized = <<>>
    /\ normalized2 = <<>>
    /\ npc = "start"

\* clean_text(text)
Normalize ==
    /\ npc = "start"
    /\ normalized' = clean_text(ntext)
    /\ npc' = "done"
    /\ UNCHANGED <<ntext, normalized2, sessionVars, redactVars, fieldVars,
                   storeVars, scraperVars>>

\* clean_text applied to the text it returned
NormalizeAgain ==
    /\ npc = "done"
    /\ normalized2' = clean_text(normalized)
    /\ npc' = "again"
    /\ UNCHANGED <<ntext, normalized, sessionVars, redactVars, fieldVars,
                   storeVars, scraperVars>>

InitNormalize ==
    NormInit /\ SessionIdle /\ RedactIdle /\ FieldIdle /\ StoreIdle
    /\ ScraperIdle
NextNormalize == Normalize \/ NormalizeAgain
SpecNormalize == InitNormalize /\ [][NextNormalize]_vars

----------------------------------------------------------------------------
(* One text field through detection and sanitization *)

\* the participant lists a NameDetector is constructed with ('name' values;
\* a participant without the key counts as the empty name)
FieldUserLists ==
    {<<>>, <<<<>>, <<" ", " ">>>>, <<Al>>, <<Al \o <<" ">> \o Bo>>,
     <<Al \o <<" ">> \o Bo, Al \o <<" ">> \o Bo>>,
     <<<<" ", "A", " ">> \o Bo \o <<" ">>>>}

\* the recognizers of the session, and one that labels the full name
FieldNlpModels ==
    NlpModels \cup
    {[ents |-> {Person(Al \o <<" ">> \o Bo)}, raises |-> {}, misses |-> {}]}

\* "&amp;lt; Al"
TextAmpLt == <<"&", "a", "m", "p", ";", "l", "t", ";", " ", "A", "l">>

FieldTexts ==
    {<<>>, TextA, TextE, TextAmpLt, clean_text(TextA), Al, Bo,
     <<"a", "l", " ">> \o Bo \o <<" ">> \o Al,
     <<"A", "L">>, Al \o <<"a", "l", " ">> \o Al}

\* NameDetector.__init__ has run, and the caller holds one text
FieldInit ==
    /\ all_users \in FieldUserLists
    /\ roster_names = extract_roster_names(all_users)
    /\ nlp \in FieldNlpModels
    /\ set_order \in Permutations_of({strip(e.text) : e \in nlp.ents})
    /\ ftext \in FieldTexts
    /\ fnames = <<>> /\ fclean = <<>> /\ fnames2 = <<>> /\ fclean2 = <<>>
    /\ fhit = FALSE
    /\ fseen = {}
    /\ fpc = "start"
    /\ model_installed = TRUE
    /\ heap = <<>> /\ heap0 = <<>> /\ posts = <<>> /\ cleaned_posts = <<>>
    /\ i = 0 /\ pc = "idle" /\ faulted = {} /\ ncalls = 0
    /\ call = [state |-> "none"]

\* detector._is_roster_name(text), the text taken as a candidate name
CheckRoster ==
    /\ fpc = "start"
    /\ fhit' = is_roster_name(ftext)
    /\ fpc' = "checked"
    /\ UNCHANGED <<all_users, fseen, ftext, fnames, fclean, fnames2,
                   fclean2, sessionVars, redactVars, normVars, storeVars,
                   scraperVars>>

\* detector.find_names_in_text(text)
FindNames ==
    /\ fpc = "start"
    /\ fnames' = find_names_in_text(ftext)
    /\ fpc' = "found"
    /\ UNCHANGED <<all_users, fhit, fseen, ftext, fclean, fnames2, fclean2,
                   sessionVars, redactVars, normVars, storeVars, scraperVars>>

\* remover._clean_field(text)
CleanField ==
    /\ fpc = "found"
    /\ \E r \in {clean_field(heap, Str(ftext))} : fclean' = r.v.s
    /\ fseen' = IF ftext = <<>> THEN fseen
                ELSE fseen \cup field_stages(ftext).given
    /\ fpc' = "cleaned"
    /\ UNCHANGED <<all_users, fhit, ftext, fnames, fnames2, fclean2,
                   sessionVars, redactVars, normVars, storeVars, scraperVars>>

\* the field that came out goes through detection and sanitization again
CleanAgain ==
    /\ fpc = "cleaned"
    /\ fnames2' = find_names_in_text(fclean)
    /\ \E r \in {clean_field(heap, Str(fclean))} : fclean2' = r.v.s
    /\ fseen' = IF fclean = <<>> THEN fseen
                ELSE fseen \cup field_stages(fclean).given
    /\ fpc' = "again"
    /\ UNCHANGED <<all_users, fhit, ftext, fnames, fclean, sessionVars,
                   redactVars, normVars, storeVars, scraperVars>>

InitField ==
    FieldInit /\ RedactIdle /\ NormIdle /\ StoreIdle /\ ScraperIdle
NextField == CheckRoster \/ FindNames \/ CleanField \/ CleanAgain
SpecField == InitField /\ [][NextField]_vars

----------------------------------------------------------------------------
(* utils/file_handler.py: the cleaned posts through a JSONL file.  A line   *)
(* is what json.dumps gives for a record (jsonlines writes with             *)
(* ensure_ascii=False and the default separators); reading splits the file  *)
(* at its line ends and gives every line to json.loads.                     *)

MaxDepth == 8      \* deepest nesting of objects read from one line

DigitChar(n) ==
    CASE n = 0 -> "0" [] n = 1 -> "1" [] n = 2 -> "2" [] n = 3 -> "3"
      [] n = 4 -> "4" [] n = 5 -> "5" [] n = 6 -> "6" [] n = 7 -> "7"
      [] n = 8 -> "8" [] n = 9 -> "9"

\* str(n) for an int that is not negative
RECURSIVE digits(_)
digits(n) ==
    IF n < 10 THEN <<DigitChar(n)>>
    ELSE Append(digits(n \div 10), DigitChar(n % 10))

\* a mutation of escape_char: the character goes out as it is
escape_none(c) == <<c>>

\* json.encoder.py_encode_basestring, one character
escape_char(c) ==
    CASE c = "\"" -> <<"\\", "\"">>
      [] c = "\\" -> <<"\\", "\\">>
      [] c = "\n" -> <<"\\", "n">>
      [] c = "\r" -> <<"\\", "r">>
      [] c = "\t" -> <<"\\", "t">>
      [] OTHER -> <<c>>

RECURSIVE escape(_)
escape(str) ==
    IF str = <<>> THEN <<>>
    ELSE escape_char(Head(str)) \o escape(Tail(str))

\* the keys of a dict in the order the dict iterates them
RECURSIVE keys_of(_)
keys_of(S) ==
    IF S = {} THEN <<>>
    ELSE With(CHOOSE x \in S : TRUE, LAMBDA x : <<x>> \o keys_of(S \ {x}))

\* pieces joined by ", "
RECURSIVE join(_)
join(pieces) ==
    IF pieces = <<>> THEN <<>>
    ELSE IF Len(pieces) = 1 THEN pieces[1]
    ELSE pieces[1] \o <<",", " ">> \o join(Tail(pieces))

\* json.dumps(v, ensure_ascii=False)
RECURSIVE dumps(_, _)
dumps(h, v) ==
    CASE v.t = "none" -> <<"n", "u", "l", "l">>
      [] v.t = "int" -> digits(v.n)
      [] v.t = "str" -> <<"\"">> \o escape(v.s) \o <<"\"">>
      [] v.t = "ref" ->
           IF h[v.a].k = "list"
           THEN With(h[v.a].items, LAMBDA items :
                    <<"[">> \o join([k \in 1..Len(items) |->
                                        dumps(h, items[k])]) \o <<"]">>)
           ELSE With(h[v.a].f, LAMBDA f :
                With(keys_of(DOMAIN f), LAMBDA keys :
                    <<"{">>
                    \o join([k \in 1..Len(keys) |->
                               <<"\"", keys[k], "\"", ":", " ">>
                               \o dumps(h, f[keys[k]])])
                    \o <<"}">>))

\* writer.write(item) for every item: the line and its line end
RECURSIVE write_lines(_, _)
write_lines(h, data) ==
    IF data = <<>> THEN <<>>
    ELSE dumps(h, Head(data)) \o <<"\n">> \o write_lines(h, Tail(data))

\* the outcome of reading at a position: the heap, whether it went well,
\* the value and the position after it
Read(h, v, at) == [h |-> h, ok |-> TRUE, v |-> v, at |-> at]
Bad(h) == [h |-> h, ok |-> FALSE, v |-> None, at |-> 0]

\* json.decoder.WHITESPACE matched at a position: the position after it
RECURSIVE skip_ws(_, _)
skip_ws(str, at) ==
    IF at <= Len(str) /\ str[at] \in {" ", "\t", "\n", "\r"}
    THEN skip_ws(str, at + 1)
    ELSE at

\* the first position at or after `at` that holds one of the characters,
\* or one past the end
first_of(str, at, chars) ==
    With({k \in at..Len(str) : str[k] \in chars} \cup {Len(str) + 1},
         LAMBDA S : CHOOSE k \in S : \A j \in S : k <= j)

\* json.decoder.py_scanstring from the character after the opening quote:
\* a chunk up to the next quote, backslash or control character, then that
\* character (strict: a control character inside a string is an error)
RECURSIVE scan_string(_, _, _, _)
scan_string(h, str, at, acc) ==
    With(first_of(str, at, {"\"", "\\", "\n", "\r", "\t"}), LAMBDA end :
        IF end > Len(str) THEN Bad(h)
        ELSE With(acc \o Slice(str, at, end - 1), LAMBDA chunk :
            IF str[end] = "\"" THEN Read(h, chunk, end + 1)
            ELSE IF str[end] # "\\" THEN Bad(h)
            ELSE IF end + 1 > Len(str) THEN Bad(h)
            ELSE With(str[end + 1], LAMBDA e :
                IF e \notin {"\"", "\\", "/", "n", "r", "t"} THEN Bad(h)
                ELSE With(Append(chunk,
                                 CASE e = "n" -> "\n" [] e = "r" -> "\r"
                                   [] e = "t" -> "\t" [] OTHER -> e),
                          LAMBDA a : scan_string(h, str, end + 2, a)))))

RECURSIVE scan_once(_, _, _, _)
RECURSIVE scan_array(_, _, _, _, _)
RECURSIVE scan_object(_, _, _, _, _)

\* JSONArray after "[" and the values read so far
scan_array(h, str, at, items, depth) ==
    With(scan_once(h, str, skip_ws(str, at), depth), LAMBDA r :
        LET end == skip_ws(str, r.at)
        IN  IF ~r.ok \/ end > Len(str) THEN Bad(h)
            ELSE IF str[end] = "]"
            THEN Read(Append(r.h, List(Append(items, r.v))),
                      Ref(Len(r.h) + 1), end + 1)
            ELSE IF str[end] = ","
            THEN scan_array(r.h, str, end + 1, Append(items, r.v), depth)
            ELSE Bad(h))

\* the key of a pair and the position after its colon (0 where there is no
\* key and colon to read)
scan_key(h, str, at) ==
    LET start == skip_ws(str, at)
        key == IF start <= Len(str) /\ str[start] = "\""
               THEN scan_string(h, str, start + 1, <<>>) ELSE Bad(h)
        colon == skip_ws(str, key.at)
    IN  IF key.ok /\ Len(key.v) = 1 /\ colon <= Len(str) /\ str[colon] = ":"
        THEN [key |-> key.v[1], at |-> colon + 1]
        ELSE [key |-> "", at |-> 0]

\* JSONObject after "{" and the pairs read so far
scan_object(h, str, at, f, depth) ==
    IF scan_key(h, str, at).at = 0 THEN Bad(h)
    ELSE With(scan_once(h, str, skip_ws(str, scan_key(h, str, at).at),
                        depth), LAMBDA r :
        LET end == skip_ws(str, r.at)
            all == (scan_key(h, str, at).key :> r.v) @@ f
        IN  IF ~r.ok \/ end > Len(str) THEN Bad(h)
            ELSE IF str[end] = "}"
            THEN Read(Append(r.h, Dict(all)), Ref(Len(r.h) + 1), end + 1)
            ELSE IF str[end] = ","
            THEN scan_object(r.h, str, end + 1, all, depth)
            ELSE Bad(h))

\* json.scanner.py_make_scanner._scan_once: one value at a position
scan_once(h, str, at, depth) ==
    IF at > Len(str) \/ depth = 0 THEN Bad(h)
    ELSE With(str[at], LAMBDA c :
        IF c = "\"" THEN With(scan_string(h, str, at + 1, <<>>), LAMBDA r :
                              IF r.ok THEN Read(h, Str(r.v), r.at)
                              ELSE Bad(h))
        ELSE IF c = "n"
        THEN IF Slice(str, at, at + 3) = <<"n", "u", "l", "l">>
                /\ at + 3 <= Len(str)
             THEN Read(h, None, at + 4) ELSE Bad(h)
        ELSE IF IsDigit(c)
        THEN With(digit_run(str, at), LAMBDA n :
                 Read(h, Num(int_of(Slice(str, at, at + n - 1))), at + n))
        ELSE IF c = "["
        THEN With(skip_ws(str, at + 1), LAMBDA first :
                 IF first <= Len(str) /\ str[first] = "]"
                 THEN With(Alloc(h, List(<<>>)), LAMBDA n :
                          Read(n.h, n.v, first + 1))
                 ELSE scan_array(h, str, at + 1, <<>>, depth - 1))
        ELSE IF c = "{"
        THEN With(skip_ws(str, at + 1), LAMBDA first :
                 IF first <= Len(str) /\ str[first] = "}"
                 THEN With(Alloc(h, Dict(<<>>)), LAMBDA n :
                          Read(n.h, n.v, first + 1))
                 ELSE scan_object(h, str, at + 1, <<>>, depth - 1))
        ELSE Bad(h))

\* json.loads(line): one value, and nothing but white space around it
loads(h, line) ==
    With(scan_once(h, line, skip_ws(line, 1), MaxDepth), LAMBDA r :
        IF ~r.ok THEN Bad(h)
        ELSE IF skip_ws(line, r.at) <= Len(line) THEN Bad(h)
        ELSE r)

\* list(reader): every line of the file through json.loads, in order
\* (text mode ends a line at "\n" and at "\r")
RECURSIVE read_lines(_, _, _, _)
read_lines(h, str, at, done) ==
    IF at > Len(str) THEN Ok(h, done)
    ELSE With(first_of(str, at, {"\n", "\r"}), LAMBDA end :
        With(loads(h, Slice(str, at, end - 1)), LAMBDA r :
            IF ~r.ok THEN Raise(h)
            ELSE With(Append(done, r.v), LAMBDA all :
                     read_lines(r.h, str, end + 1, all))))

\* a file that holds these characters
FileOf(text) == [exists |-> TRUE, text |-> text]

\* JSONLHandler.write(data, filepath, append): jsonlines.open in mode 'w'
\* or 'a', and every item written as one line
write(h, f, data, append) ==
    IF append /\ f.exists THEN FileOf(f.text \o write_lines(h, data))
    ELSE FileOf(write_lines(h, data))

\* JSONLHandler.read(filepath): [] where there is no file
read(h, f) ==
    IF ~f.exists THEN Ok(h, <<>>)
    ELSE read_lines(h, f.text, 1, <<>>)

\* a text with a quote, a backslash and a paragraph break: "Al\n, a blank
\* line, x
TextQuoted == <<"\"", "A", "l", "\\", "n", "\n", "\n", "x">>

StoreTemplates ==
    {Template(1, Str(TextA), Str(TextQuoted), TRUE, "none", "none", "empty"),
     Template(2, Str(TextQuoted), Str(TextA), TRUE, "endorsed", "dict",
              "thread"),
     Template(3, Absent, None, FALSE, "none", "nocontent", "nested"),
     Template(4, Str(TextQuoted), Num(7), TRUE, "dict", "none", "replies")}

\* what the path holds before anything is written: nothing, an empty file,
\* or the line of an earlier run
StoreFiles ==
    {Missing, FileOf(<<>>),
     FileOf(<<"{", "\"", "post_id", "\"", ":", " ", "0", "}", "\n">>)}

\* a PIIRemover has been built, the caller holds a list of posts, and there
\* is a path to keep the cleaned posts at
StoreInit ==
    /\ model_installed = TRUE
    /\ roster_names = extract_roster_names(<<Al \o <<" ">> \o Bo>>)
    /\ nlp = [ents |-> {Person(Al), Person(Bo)}, raises |-> {},
              misses |-> {}]
    /\ set_order \in Permutations_of({strip(e.text) : e \in nlp.ents})
    /\ \E l \in {load(<<>>, batch, <<>>) :
                    batch \in UNION {[1..n -> StoreTemplates] :
                                       n \in 0..MaxBatch}} :
          heap = l.h /\ heap0 = l.h /\ posts = l.v
    /\ cleaned_posts = <<>>
    /\ i = 0
    /\ pc = "idle"
    /\ faulted = {}
    /\ call = [state |-> "none"]
    /\ ncalls = 0
    /\ file \in StoreFiles
    /\ wrote = "none"
    /\ loaded = <<>>
    /\ spc = "start"

\* JSONLHandler.write(cleaned_posts, path, append)
WriteJsonl ==
    /\ pc = "returned"
    /\ spc = "start"
    /\ \E append \in BOOLEAN :
          /\ file' = write(heap, file, cleaned_posts, append)
          /\ wrote' = IF append THEN "a" ELSE "w"
    /\ spc' = "written"
    /\ UNCHANGED <<loaded, sessionVars, redactVars, normVars, fieldVars,
                   scraperVars>>

\* JSONLHandler.read(path)
ReadJsonl ==
    /\ pc = "returned"
    /\ spc \in {"start", "written"}
    /\ \E r \in {read(heap, file)} :
          /\ heap' = r.h
          /\ loaded' = r.v
          /\ spc' = IF r.ok THEN "read" ELSE "raised"
    /\ UNCHANGED <<heap0, posts, cleaned_posts, i, pc, faulted, call, ncalls,
                   roster_names, nlp, set_order, model_installed, file,
                   wrote, redactVars, normVars, fieldVars, scraperVars>>

InitStore ==
    StoreInit /\ RedactIdle /\ NormIdle /\ FieldIdle /\ ScraperIdle
NextStore ==
    BatchStart \/ BatchIter \/ BatchReturn \/ WriteJsonl \/ ReadJsonl
SpecStore == InitStore /\ [][NextStore]_vars

----------------------------------------------------------------------------
(* scrapers/piazza_scraper.py: one PiazzaScraper and the calls made on it.  *)
(* The Piazza service is the environment: it accepts one pair of            *)
(* credentials, and any request to it can fail.                             *)

Email == Str(<<"ta@uni">>)
Secret == Str(<<"pw">>)
Wrong == Str(<<"guess">>)

\* a or b
py_or(a, b) == IF Truthy(<<>>, a) THEN a ELSE b

\* what self.piazza.network(network_id) returns: an object, always truthy
Network(nid) == [t |-> "network", nid |-> nid]

\* the replies of network.get_all_users() for a course
CourseUsers ==
    {<<>>,
     <<[id |-> "u1", role |-> "instructor"], [id |-> "u2", role |-> "student"],
       [id |-> "", role |-> "ta"], [id |-> "u3", role |-> "professor"]>>}

\* what the service does with a request: "ok", or the exception it raises
Replies(mail, pass) ==
    IF mail = Email /\ pass = Secret THEN {"ok", "RequestError"}
    ELSE {"AuthenticationError", "RequestError"}

\* a mutation of login_outcome: the session is marked before the service
\* has answered
login_eager(auth, mail, pass, reply) ==
    IF ~Truthy(<<>>, mail) \/ ~Truthy(<<>>, pass)
    THEN [result |-> "ValueError", auth |-> auth]
    ELSE [result |-> IF reply = "ok" THEN "returned" ELSE reply,
          auth |-> TRUE]

\* PiazzaScraper.login from the credentials it settled on: how the call
\* ends and what _authenticated is afterwards
login_outcome(auth, mail, pass, reply) ==
    IF ~Truthy(<<>>, mail) \/ ~Truthy(<<>>, pass)
    THEN [result |-> "ValueError", auth |-> auth]
    ELSE IF reply = "ok" THEN [result |-> "returned", auth |-> TRUE]
    ELSE [result |-> reply, auth |-> auth]

\* PiazzaScraper._fetch_instructor_uids on the users the service returned
fetch_instructor_uids(users) ==
    {users[u].id : u \in {x \in 1..Len(users) :
                             /\ users[x].role \in {"instructor", "ta"}
                             /\ users[x].id # ""}}

\* PiazzaScraper(email, password)
ScraperInit ==
    /\ email \in {None, Email}
    /\ password \in {None, Secret, Wrong}
    /\ authenticated = FALSE
    /\ network = None
    /\ instructor_uids = {}
    /\ outcome = [op |-> "none"]
    /\ logged_in = FALSE
    /\ connected = FALSE

\* scraper.login(email, password)
Login ==
    \E e \in {None, Str(<<>>), Email} : \E p \in {None, Secret, Wrong} :
        \E mail \in {py_or(e, email)} : \E pass \in {py_or(p, password)} :
            \E reply \in Replies(mail, pass) :
                \E r \in {login_outcome(authenticated, mail, pass, reply)} :
                    /\ authenticated' = r.auth
                    /\ outcome' = [op |-> "login", result |-> r.result]
                    /\ logged_in' = (logged_in \/ r.result = "returned")
                    /\ UNCHANGED <<email, password, network,
                                   instructor_uids, connected, sessionVars,
                                   redactVars, normVars, fieldVars,
                                   storeVars>>

\* scraper.get_user_courses()
GetUserCourses ==
    /\ \E reply \in {"ok", "RequestError"} :
          outcome' = [op |-> "get_user_courses",
                      result |-> IF ~authenticated THEN "RuntimeError"
                                 ELSE IF reply = "ok" THEN "returned"
                                 ELSE reply]
    /\ UNCHANGED <<email, password, authenticated, network, instructor_uids,
                   logged_in, connected, sessionVars, redactVars, normVars,
                   fieldVars, storeVars>>

\* scraper.connect_to_course(network_id): self.piazza.network, then
\* _fetch_instructor_uids, which keeps its own failure to itself
ConnectToCourse ==
    \E nid \in {"c1", "c2"} : \E reply \in {"ok", "RequestError"} :
        \E users \in CourseUsers : \E listed \in {"ok", "RequestError"} :
            /\ IF ~authenticated
               THEN /\ outcome' = [op |-> "connect_to_course",
                                   result |-> "RuntimeError"]
                    /\ UNCHANGED <<network, instructor_uids, connected>>
               ELSE IF reply # "ok"
               THEN /\ outcome' = [op |-> "connect_to_course",
                                   result |-> reply]
                    /\ UNCHANGED <<network, instructor_uids, connected>>
               ELSE /\ network' = Network(nid)
                    /\ instructor_uids' =
                          IF listed # "ok" THEN {}
                          ELSE fetch_instructor_uids(users)
                    /\ connected' = TRUE
                    /\ outcome' = [op |-> "connect_to_course",
                                   result |-> "returned"]
            /\ UNCHANGED <<email, password, authenticated, logged_in,
                           sessionVars, redactVars, normVars, fieldVars,
                           storeVars>>

\* a call that starts with `if not self.network: raise RuntimeError(...)`
\* and then asks the service
network_call(op) ==
    /\ \E reply \in {"ok", "RequestError"} :
          outcome' = [op |-> op,
                      result |-> IF network = None THEN "RuntimeError"
                                 ELSE IF reply = "ok" THEN "returned"
                                 ELSE reply]
    /\ UNCHANGED <<email, password, authenticated, network, instructor_uids,
                   logged_in, connected, sessionVars, redactVars, normVars,
                   fieldVars, storeVars>>

\* scraper.get_all_posts(...)
GetAllPosts == network_call("get_all_posts")

\* scraper.get_post_by_id(post_id)
GetPostById == network_call("get_post_by_id")

\* scraper.get_course_instructors()
GetCourseInstructors == network_call("get_course_instructors")

InitScraper ==
    ScraperInit /\ SessionIdle /\ RedactIdle /\ NormIdle /\ FieldIdle
    /\ StoreIdle
NextScraper ==
    Login \/ GetUserCourses \/ ConnectToCourse \/ GetAllPosts
    \/ GetPostById \/ GetCourseInstructors
SpecScraper == InitScraper /\ [][NextScraper]_vars

----------------------------------------------------------------------------
(* What is checked of the sanitizer session *)

\* the addresses an object refers to
RefsOf(o) ==
    IF o.k = "dict"
    THEN {o.f[x].a : x \in {y \in DOMAIN o.f : o.f[y].t = "ref"}}
    ELSE {o.items[j].a : j \in {y \in 1..Len(o.items) : o.items[y].t = "ref"}}

RECURSIVE ReachFrom(_, _)
ReachFrom(h, S) ==
    With(S \cup UNION {RefsOf(h[a]) : a \in S}, LAMBDA N :
        IF N = S THEN S ELSE ReachFrom(h, N))

\* every object reachable from a value
Reach(h, v) == IF v.t = "ref" THEN ReachFrom(h, {v.a}) ELSE {}

\* redact(normalize(field)) for a field holding v (absent and null fields
\* normalize to the empty string)
Expected(v) ==
    Str(IF v.t = "str" THEN redact_names(clean_text(v.s)) ELSE <<>>)

\* record `out` holds the sanitized content of record `in` of the input
SanitizedRecord(in, out) ==
    /\ IsDict(heap, out)
    /\ Get(heap, out, "content", None)
         = Expected(Get(heap0, in, "content", None))

\* list `outs` holds, position by position, the sanitized records of `ins`
SanitizedList(ins, outs) ==
    /\ Len(outs) = Len(ins)
    /\ \A j \in 1..Len(ins) : SanitizedRecord(ins[j], outs[j])

RepliesIn(f) == Items(heap0, Get(heap0, f, "replies", None))
RepliesOut(f) ==
    IF IsDict(heap, f) THEN Items(heap, Get(heap, f, "replies", None))
    ELSE <<>>

\* post `out` holds every text field of input post `in` sanitized, down to
\* the replies of its followups
SanitizedPost(in, out) ==
    /\ IsDict(heap, out)
    /\ \A key \in {"subject", "content"} :
          Get(heap, out, key, None) = Expected(Get(heap0, in, key, None))
    /\ \A key \in {"student_answer", "instructor_answer"} :
          Truthy(heap0, Get(heap0, in, key, None)) =>
              SanitizedRecord(Get(heap0, in, key, None),
                              Get(heap, out, key, None))
    /\ \E fin \in {Items(heap0, Get(heap0, in, "followups", None))} :
       \E fout \in {Items(heap, Get(heap, out, "followups", None))} :
          /\ SanitizedList(fin, fout)
          /\ \A j \in 1..Len(fin) :
                SanitizedList(RepliesIn(fin[j]), RepliesOut(fout[j]))

\* the replies of the replies of the followups are sanitized as well
SanitizedNested(in, out) ==
    \E fin \in {Items(heap0, Get(heap0, in, "followups", None))} :
    \E fout \in {Items(heap, Get(heap, out, "followups", None))} :
       \A j \in 1..Len(fin) :
          \E rin \in {RepliesIn(fin[j])} : \E rout \in {RepliesOut(fout[j])} :
             \A m \in 1..Len(rin) :
                 m <= Len(rout) /\ IsDict(heap0, rin[m]) =>
                     SanitizedList(RepliesIn(rin[m]), RepliesOut(rout[m]))

\* C1: clean_post never mutates its argument: the post handed in and every
\* answer, followup, reply and list under it are, field for field, what
\* they were before the call (whether the call returned or raised).
C1_InputNeverMutated ==
    /\ Len(heap) >= Len(heap0)
    /\ \A a \in 1..Len(heap0) : heap[a] = heap0[a]

\* a call returned for a post with an answer and a followup with a reply
C1_Witness ==
    /\ call.state = "returned"
    /\ Truthy(heap, Get(heap, call.arg, "student_answer", None))
    /\ \E f \in Range(Items(heap, Get(heap, call.arg, "followups", None))) :
          RepliesOut(f) # <<>>

\* C2 (as claimed): the post clean_post returns shares no dict and no list
\* with the post handed in.
C2_OutputSharesNothing ==
    call.state = "returned" =>
        Reach(heap, call.ret) \cap Reach(heap, call.arg) = {}

\* C5 (as claimed): clean_posts_batch never propagates an exception.
C5_BatchNeverRaises == pc # "raised"

\* what C6 says of a batch call that returned
FaultedKeptOthersSanitized ==
    pc = "returned" =>
        /\ Len(cleaned_posts) = Len(posts)
        /\ \A k \in faulted :
              /\ cleaned_posts[k] = posts[k]
              /\ \A a \in Reach(heap, posts[k]) : heap[a] = heap0[a]
        /\ \A k \in (1..Len(posts)) \ faulted :
              SanitizedPost(posts[k], cleaned_posts[k])

\* C6 (as claimed): when cleaning a post of a batch of N raises, the batch
\* call still returns N posts, the post that failed stands in the output
\* with its original text, and the other posts are sanitized.
C6_FaultKeepsOriginal ==
    /\ pc # "raised"
    /\ FaultedKeptOthersSanitized

\* C7: the list clean_posts_batch returns is as long as the list it was
\* given; while it runs, it has appended one post per turn of the loop.
C7_OutputLengthEqualsInput ==
    /\ pc = "returned" => Len(cleaned_posts) = Len(posts)
    /\ pc = "loop" => Len(cleaned_posts) = i - 1

\* a batch of two returned although cleaning one of its posts raised
C7_Witness ==
    pc = "returned" /\ Len(posts) = 2 /\ Cardinality(faulted) = 1

\* C8: position by position, the output of clean_posts_batch holds the
\* sanitized copy of the input post at that position, with its post_id, or
\* the input post itself when cleaning it raised.
C8_PositionsCorrespond ==
    /\ Len(cleaned_posts) <= Len(posts)
    /\ \A k \in 1..Len(cleaned_posts) :
          IF k \in faulted THEN cleaned_posts[k] = posts[k]
          ELSE /\ SanitizedPost(posts[k], cleaned_posts[k])
               /\ cleaned_posts[k] # posts[k]
               /\ Get(heap, cleaned_posts[k], "post_id", None)
                    = Get(heap0, posts[k], "post_id", None)

\* a batch of two posts with different ids returned, the first one cleaned
\* and the second one kept as it was
C8_Witness ==
    /\ pc = "returned" /\ Len(posts) = 2 /\ faulted = {2}
    /\ Get(heap, cleaned_posts[1], "post_id", None)
         # Get(heap, cleaned_posts[2], "post_id", None)

\* C9: in the post clean_post returns, subject, content, the content of
\* both answers, of every followup and of every reply of every followup
\* are redact(normalize(field)) of the input's field.
C9_EveryTextFieldSanitized ==
    call.state = "returned" => SanitizedPost(call.arg, call.ret)

\* a call returned for a post with both answers and a followup with a
\* reply, and the reply came out with its names replaced
C9_Witness ==
    /\ call.state = "returned"
    /\ Truthy(heap, Get(heap, call.arg, "student_answer", None))
    /\ Truthy(heap, Get(heap, call.arg, "instructor_answer", None))
    /\ \E f \in Range(Items(heap, Get(heap, call.ret, "followups", None))) :
          \E r \in Range(RepliesOut(f)) :
             Get(heap, r, "content", None)
                = Str(placeholder \o <<" ">> \o placeholder)

\* C10 (as claimed): a reply that carries replies of its own has them
\* sanitized too in the post clean_post returns.
C10_NestedRepliesSanitized ==
    call.state = "returned" => SanitizedNested(call.arg, call.ret)

\* a text field holds a string, or nothing
TextOk(h, d, key) ==
    \E v \in {Get(h, d, key, None)} : ~Truthy(h, v) \/ v.t = "str"

RecordOk(h, rec) == IsDict(h, rec) /\ TextOk(h, rec, "content")

\* the post is a record of the shape PiazzaScraper._structure_post builds
WellFormed(h, post) ==
    /\ IsDict(h, post)
    /\ TextOk(h, post, "subject") /\ TextOk(h, post, "content")
    /\ \A key \in {"student_answer", "instructor_answer"} :
          \E a \in {Get(h, post, key, None)} :
             ~Truthy(h, a) \/ RecordOk(h, a)
    /\ \E fs \in {Get(h, post, "followups", None)} :
          \/ ~Truthy(h, fs)
          \/ /\ IsList(h, fs)
             /\ \A f \in Range(Items(h, fs)) :
                   /\ RecordOk(h, f)
                   /\ \E rs \in {Get(h, f, "replies", None)} :
                         \/ ~Truthy(h, rs)
                         \/ /\ IsList(h, rs)
                            /\ \A r \in Range(Items(h, rs)) : RecordOk(h, r)

\* C12: a failure of the recognizer on a text stays inside find_names:
\* clean_post returns for every well-formed post, and a subject or content
\* the recognizer fails on comes out normalized and unredacted.
C12_RecognizerFailureContained ==
    (call.state # "none" /\ WellFormed(heap0, call.arg)) =>
        /\ call.state = "returned"
        /\ \A key \in {"subject", "content"} :
              \E v \in {Get(heap0, call.arg, key, None)} :
                 (v.t = "str" /\ clean_text(v.s) \in nlp.raises) =>
                     Get(heap, call.ret, key, None) = Str(clean_text(v.s))

\* the recognizer failed on the subject, which came out normalized, and
\* the content after it came out redacted
C12_Witness ==
    /\ call.state = "returned"
    /\ Get(heap0, call.arg, "subject", None) = Str(TextA)
    /\ clean_text(TextA) \in nlp.raises
    /\ Get(heap, call.ret, "subject", None) = Str(clean_text(TextA))
    /\ Get(heap, call.ret, "content", None) = Str(<<"<", " ">> \o placeholder)

\* the value v of the output equals the value v0 of the input (a list by
\* what it holds)
SameValue(v0, v) ==
    IF v0.t = "ref" THEN v.t = "ref" /\ heap[v.a] = heap0[v0.a] ELSE v = v0

\* every field of record `in` but the ones named is in record `out`, equal
SameBut(in, out, names) ==
    /\ IsDict(heap, out)
    /\ \A key \in DOMAIN heap0[in.a].f \ names :
          /\ key \in DOMAIN heap[out.a].f
          /\ SameValue(heap0[in.a].f[key], heap[out.a].f[key])

\* list `outs` holds as many records as `ins`, in the same order, each with
\* the fields of its original but the ones named
SameListBut(ins, outs, names) ==
    /\ Len(outs) = Len(ins)
    /\ \A j \in 1..Len(ins) : SameBut(ins[j], outs[j], names)

\* C16: structural fields pass through clean_post unchanged: post_id,
\* post_number, is_public, folders and created of the post, created and
\* endorsed_by of the answers, type, author_type and created of followups
\* and replies, and the number and order of followups and of the replies of
\* each followup are the same in the post returned as in the post given.
C16_StructurePassesThrough ==
    call.state = "returned" =>
        /\ SameBut(call.arg, call.ret,
                   {"subject", "content", "student_answer",
                    "instructor_answer", "followups"})
        /\ \A key \in {"student_answer", "instructor_answer"} :
              \E a \in {Get(heap0, call.arg, key, None)} :
                 IF Truthy(heap0, a)
                 THEN SameBut(a, Get(heap, call.ret, key, None), {"content"})
                 ELSE Get(heap, call.ret, key, None) = a
        /\ \E fin \in {Items(heap0, Get(heap0, call.arg, "followups", None))} :
           \E fout \in {Items(heap, Get(heap, call.ret, "followups", None))} :
              /\ SameListBut(fin, fout, {"content", "replies"})
              /\ \A j \in 1..Len(fin) :
                    SameListBut(RepliesIn(fin[j]), RepliesOut(fout[j]),
                                {"content", "replies"})

\* a call returned for a post with folders, an endorsed answer and two
\* followups, the first of them with two replies
C16_Witness ==
    /\ call.state = "returned"
    /\ "folders" \in DOMAIN heap[call.ret.a].f
    /\ \E a \in {Get(heap, call.ret, "student_answer", None)} :
          IsDict(heap, a) /\ "endorsed_by" \in DOMAIN heap[a.a].f
    /\ \E fout \in {Items(heap, Get(heap, call.ret, "followups", None))} :
          /\ Len(fout) = 2
          /\ Len(RepliesOut(fout[1])) = 2
          /\ Get(heap, RepliesOut(fout[1])[1], "type", None)
               # Get(heap, RepliesOut(fout[1])[2], "type", None)

\* the type of a value: str, int, none, dict or list
TypeOf(h, v) == IF v.t = "ref" THEN h[v.a].k ELSE v.t

\* record `out` has the field names of record `in`, each of the same type
SameFields(in, out) ==
    /\ IsDict(heap, out)
    /\ DOMAIN heap[out.a].f = DOMAIN heap0[in.a].f
    /\ \A key \in DOMAIN heap0[in.a].f :
          TypeOf(heap, heap[out.a].f[key]) = TypeOf(heap0, heap0[in.a].f[key])

SameFieldsList(ins, outs) ==
    /\ Len(outs) = Len(ins)
    /\ \A j \in 1..Len(ins) : SameFields(ins[j], outs[j])

\* C17 (as claimed): the post clean_post returns has, at every level (post,
\* answers, followups, replies), exactly the field names and field types
\* of the post given: no field is added, removed or changed in type.
C17_SameFieldsAndTypes ==
    call.state = "returned" =>
        /\ SameFields(call.arg, call.ret)
        /\ \A key \in {"student_answer", "instructor_answer"} :
              \E a \in {Get(heap0, call.arg, key, None)} :
                 IsDict(heap0, a) =>
                     SameFields(a, Get(heap, call.ret, key, None))
        /\ \E fin \in {Items(heap0, Get(heap0, call.arg, "followups", None))} :
           \E fout \in {Items(heap, Get(heap, call.ret, "followups", None))} :
              /\ SameFieldsList(fin, fout)
              /\ \A j \in 1..Len(fin) :
                    SameFieldsList(RepliesIn(fin[j]), RepliesOut(fout[j]))

----------------------------------------------------------------------------
(* What is checked of one redaction *)

\* the characters a substitution wrote, in order
Written ==
    SelectSeq([k \in 1..Len(redacted) |-> <<redacted[k], mask[k]>>],
              LAMBDA p : p[2])

\* name stands at position `at` of the returned text, ignoring case
StandsAt(name, at) ==
    /\ at + Len(name) - 1 <= Len(redacted)
    /\ \A k \in 1..Len(name) : Lower(redacted[at + k - 1]) = Lower(name[k])

\* C3 (as claimed): after a redaction with names, the returned text holds
\* no occurrence, in any letter case, of any of the names.
C3_NoOccurrenceLeft ==
    (rpc = "done" /\ rnames # <<>>) =>
        \A n \in Range(rnames) : ~OccursCI(n, redacted)

\* C3 (amended): after a redaction with names, no occurrence of a name, in
\* any letter case, is left in the text carried over from the input: every
\* place of the returned text where a name still reads holds at least one
\* character of an inserted placeholder.
C3_OccurrencesOnlyInPlaceholders ==
    rpc = "done" =>
        \A n \in Range(rnames) : \A at \in 1..Len(redacted) :
            StandsAt(n, at) =>
                \E k \in at..(at + Len(n) - 1) : mask[k]

\* two names that overlap in the text were redacted: the first one was
\* replaced, which left no occurrence of the second one to replace, and
\* the rest of the text was carried over
C3_Witness ==
    /\ rpc = "done"
    /\ rtext = <<"a", "m", "A">>
    /\ rnames = <<<<"a", "m">>, <<"m", "A">>>>
    /\ redacted = placeholder \o <<"A">>

\* C4 (as claimed): a placeholder, once inserted, is never rewritten while
\* a later name is processed: what the substitutions wrote reads as a run
\* of whole placeholders.
C4_PlaceholdersIntact ==
    rpc = "done" =>
        /\ Len(Written) % Len(placeholder) = 0
        /\ \A k \in 1..Len(Written) :
              Written[k][1] = placeholder[((k - 1) % Len(placeholder)) + 1]

\* C13 (as claimed): redacting the returned text again with the same names
\* changes nothing: redact(redact(text, N), N) = redact(text, N).
C13_RedactIdempotent ==
    rpc = "again" => redacted2 = redacted

\* C15: without names redaction changes nothing: the text comes back as it
\* is, character for character, and an empty text comes back empty.
C15_NoNamesNoChange ==
    (rpc # "start" /\ rnames = <<>>) =>
        /\ redacted = rtext
        /\ \A k \in 1..Len(mask) : ~mask[k]

\* a text with letters and blanks was redacted without names
C15_Witness ==
    /\ rpc = "done"
    /\ rnames = <<>>
    /\ rtext = <<" ", "A", "m">>
    /\ redacted = <<" ", "A", "m">>

\* some name of the list is a proper substring of another one
NestedNames ==
    \E a \in Range(rnames) : \E b \in Range(rnames) :
        Len(b) < Len(a) /\ Occurs(b, a)

\* C23 (as claimed): with a name and a proper substring of it among the
\* names, the longer name is replaced first and each replacement stays
\* exactly one placeholder: what the substitutions wrote reads as a run of
\* whole placeholders, no longer name is left in the carried-over text, and
\* "John Smith and John talked." with John Smith and John gives
\* "[NAME] and [NAME] talked.".
C23_LongerNameOnePlaceholder ==
    (rpc = "done" /\ NestedNames) =>
        /\ Written = [k \in 1..Len(Written) |->
                        <<placeholder[((k - 1) % Len(placeholder)) + 1],
                          TRUE>>]
        /\ Len(Written) % Len(placeholder) = 0
        /\ \A n \in Range(rnames) : \A at \in 1..Len(redacted) :
              StandsAt(n, at) => \E k \in at..(at + Len(n) - 1) : mask[k]
        /\ rtext = TextJohn =>
              redacted = placeholder \o <<" ", "a", "n", "d", " ">>
                         \o placeholder
                         \o <<" ", "t", "a", "l", "k", "e", "d", ".">>

\* C29 (as claimed): the returned text depends on the text and the set of
\* names only, not on the order in which set() hands the names over: every
\* ordering of the same names gives the text that was returned.
C29_NameOrderIrrelevant ==
    rpc = "done" =>
        \A l \in Permutations_of(Range(rnames)) :
            redact_with(rtext, l, placeholder) = redacted

----------------------------------------------------------------------------
(* What is checked of one normalization *)

\* s holds n or more c in a row
HasRun(s, c, n) ==
    \E a \in 1..Len(s) :
        a + n - 1 <= Len(s) /\ \A k \in a..(a + n - 1) : s[k] = c

\* C18: normalize decodes the character references, then collapses each
\* run of spaces to one space, then each run of two or more newlines to
\* two, then strips whitespace at both ends; the result holds no two spaces
\* and no three newlines in a row and no whitespace at its ends; an empty
\* text gives the empty text; "I&#39;m confused" gives "I'm confused" and
\* "Smith &amp; Jones" gives "Smith & Jones".
C18_NormalizeSteps ==
    npc # "start" =>
        /\ normalized =
              strip(collapse_newlines(collapse_spaces(unescape_from(ntext, 1))))
        /\ ~HasRun(normalized, " ", 2)
        /\ ~HasRun(normalized, "\n", 3)
        /\ normalized # <<>> =>
              ~IsSpace(normalized[1]) /\ ~IsSpace(normalized[Len(normalized)])
        /\ ntext = <<>> => normalized = <<>>
        /\ ntext = TextConfused =>
              normalized = <<"I", "'", "m", " ",
                             "c", "o", "n", "f", "u", "s", "e", "d">>
        /\ ntext = TextSmith =>
              normalized = <<"S", "m", "i", "t", "h", " ", "&", " ",
                             "J", "o", "n", "e", "s">>

\* a text with a character reference and blanks after it was normalized:
\* the reference is decoded and the blanks are gone
C18_Witness ==
    /\ npc = "done"
    /\ ntext = <<"&", "#", "3", "9", ";", " ", " ">>
    /\ normalized = <<"'">>

\* C19 (as claimed): normalize is idempotent: normalizing a normalized text
\* changes nothing, also when the decoded text again spells an entity.
C19_NormalizeIdempotent ==
    npc = "again" => normalized2 = normalized

----------------------------------------------------------------------------
(* What is checked of detection and of one field *)

\* C11: find_names returns only names that are the text of a span the
\* recognizer labelled PERSON in this text and that pass the roster test
\* (the name, or one of its words, is in the index built from the
\* participant list): a roster word the recognizer did not label PERSON and
\* a PERSON span without a roster word are never returned.
C11_OnlyLabelledRosterSpans ==
    fpc # "start" =>
        \A n \in Range(fnames) :
            /\ \E e \in nlp.ents :
                  /\ e.label = "PERSON"
                  /\ strip(e.text) = n
                  /\ Occurs(e.text, ftext)
                  /\ <<ftext, e.text>> \notin nlp.misses
            /\ \E w \in {lower(n)} \cup split(lower(n)) :
                  w \in extract_roster_names(all_users)

\* detection returned one name from a text that also holds a PERSON span
\* outside the roster
C11_Witness ==
    /\ fpc = "found"
    /\ all_users = <<Al>>
    /\ Person(Bo) \in nlp.ents
    /\ Occurs(Bo, ftext)
    /\ fnames = <<Al>>

\* C14 (as claimed): a second pass of detection and sanitization over a
\* sanitized field is a no-op: find_names finds nothing in it and
\* _clean_field returns it unchanged.
C14_SecondPassNoOp ==
    fpc = "again" => (fnames2 = <<>> /\ fclean2 = fclean)

\* C20: with a participant list that is empty or holds blank names only,
\* the roster index is empty, find_names returns no name whatever the
\* recognizer labels, and a sanitized field is its normalized text.
C20_EmptyRosterMatchesNothing ==
    (\A u \in 1..Len(all_users) : strip(all_users[u]) = <<>>) =>
        /\ roster_names = {}
        /\ fnames = <<>>
        /\ fnames2 = <<>>
        /\ fpc \in {"cleaned", "again"} => fclean = clean_text(ftext)

\* the index was built from blank names, the recognizer labelled a span of
\* the field PERSON, and the field came out normalized with the span in it
C20_Witness ==
    /\ fpc = "cleaned"
    /\ all_users = <<<<>>, <<" ", " ">>>>
    /\ Person(Al) \in doc_ents(clean_text(ftext))
    /\ ftext = TextA
    /\ fclean = Al \o <<" ">> \o Bo

\* C24: a field goes through normalize, detect, redact in that order: the
\* recognizer reads nothing but the normalized text of the field (a text
\* without runs of spaces and without white space at its ends), and the
\* names it finds there are replaced in that same normalized text.
C24_NormalizeDetectRedact ==
    fpc \in {"cleaned", "again"} =>
        /\ fseen \subseteq {clean_text(ftext), clean_text(fclean)}
        /\ fpc = "cleaned" => fseen \subseteq {clean_text(ftext)}
        /\ \A t \in fseen : clean_extra_whitespace(t) = t
        /\ fclean = redact_with(clean_text(ftext),
                                find_names_in_text(clean_text(ftext)),
                                placeholder)

\* the recognizer labels the full name, which the raw field holds with two
\* spaces in it: it was given the normalized text and the name was replaced
C24_Witness ==
    /\ fpc = "cleaned"
    /\ ftext = TextA
    /\ all_users = <<Al \o <<" ">> \o Bo>>
    /\ nlp.ents = {Person(Al \o <<" ">> \o Bo)}
    /\ fseen = {Al \o <<" ">> \o Bo}
    /\ fclean = placeholder

\* C25: the roster index holds exactly the lower-cased trimmed full names
\* of the participants whose trimmed name is not empty and the lower-cased
\* white-space tokens of those names that are longer than one character;
\* a list with the same names repeated gives the same index.
C25_RosterIndexExact ==
    /\ \A w \in roster_names \cup
                 UNION {{lower(x) : x \in Substrings(all_users[u])} :
                          u \in 1..Len(all_users)} :
          w \in roster_names <=>
              \E u \in 1..Len(all_users) :
                  /\ strip(all_users[u]) # <<>>
                  /\ \/ w = lower(strip(all_users[u]))
                     \/ \E tok \in split(strip(all_users[u])) :
                           Len(tok) > 1 /\ w = lower(tok)
    /\ \A l \in FieldUserLists :
          Range(l) = Range(all_users) =>
              extract_roster_names(l) = roster_names

\* a name with white space around it and a one-letter first part gave the
\* trimmed full name and the longer part only
C25_Witness ==
    /\ all_users = <<<<" ", "A", " ">> \o Bo \o <<" ">>>>
    /\ roster_names = {<<"a", " ", "b", "o">>, <<"b", "o">>}
    /\ fpc = "start"

\* C26: a candidate is a roster name exactly when its lower-cased form or
\* one of the white-space tokens of that form is in the index; candidates
\* that differ in letter case only get the same answer.
C26_MembershipByToken ==
    fpc = "checked" =>
        /\ fhit <=> \E w \in {lower(ftext)} \cup split(lower(ftext)) :
                        w \in roster_names
        /\ \A c \in FieldTexts :
              lower(c) = lower(ftext) => (is_roster_name(c) <=> fhit)

\* a candidate in capitals was found through the index of lower-cased names
C26_Witness ==
    /\ fpc = "checked"
    /\ ftext = <<"A", "L">>
    /\ all_users = <<Al \o <<" ">> \o Bo>>
    /\ fhit

----------------------------------------------------------------------------
(* Claims about construction *)

\* C21: where the recognizer model cannot be loaded, building the remover
\* raises and leaves no remover: no post is ever sanitized, neither by a
\* direct call nor by a batch, and nothing of the caller's is touched
C21_NoRemoverWithoutRecognizer ==
    ~model_installed =>
        /\ pc \in {"new", "failed"}
        /\ call.state = "none"
        /\ cleaned_posts = <<>>
        /\ roster_names = {}
        /\ heap = heap0

\* the construction has failed while the caller held posts to sanitize
C21_Witness == ~model_installed /\ pc = "failed" /\ Len(posts) > 0

\* C28: once the remover is built no call changes the roster index, be it
\* a direct clean_post call or a turn of a batch, returning or raising: the
\* index stays the value the constructor gave it.
C28_RosterReadOnly == [][pc # "new" => roster_names' = roster_names]_vars

\* a batch over a remover with names in its index has returned after one
\* of its posts failed and another one was sanitized
C28_Witness ==
    /\ pc = "returned"
    /\ roster_names # {}
    /\ faulted # {}
    /\ Len(cleaned_posts) > Cardinality(faulted)

----------------------------------------------------------------------------
(* Claims about the JSONL file *)

\* a == b on two values of one heap
RECURSIVE Equal(_, _, _)
Equal(h, a, b) ==
    IF a.t # "ref" \/ b.t # "ref" THEN a = b
    ELSE IF h[a.a].k # h[b.a].k THEN FALSE
    ELSE IF h[a.a].k = "list"
    THEN /\ Len(h[a.a].items) = Len(h[b.a].items)
         /\ \A k \in 1..Len(h[a.a].items) :
               Equal(h, h[a.a].items[k], h[b.a].items[k])
    ELSE /\ DOMAIN h[a.a].f = DOMAIN h[b.a].f
         /\ \A key \in DOMAIN h[a.a].f :
               Equal(h, h[a.a].f[key], h[b.a].f[key])

\* C22: the cleaned posts written to a file in overwrite mode and read back
\* are as many records, in the same order, each equal to the one written in
\* every field, whatever the path held before
C22_RoundTrip ==
    (wrote = "w" /\ spc \in {"read", "raised"}) =>
        /\ spc = "read"
        /\ Len(loaded) = Len(cleaned_posts)
        /\ \A k \in 1..Len(loaded) : Equal(heap, loaded[k], cleaned_posts[k])

\* two different posts were written over an older file and read back, one
\* of them with a quote, a backslash and a paragraph break in a text
C22_Witness ==
    /\ wrote = "w" /\ spc = "read"
    /\ Len(loaded) = 2
    /\ loaded[1] # loaded[2]
    /\ Get(heap, loaded[1], "post_id", None)
          # Get(heap, loaded[2], "post_id", None)
    /\ \E k \in 1..2 : \E c \in {Get(heap, loaded[k], "content", None)} :
          c.t = "str" /\ {"\"", "\\", "\n"} \subseteq Range(c.s)

----------------------------------------------------------------------------
(* Claims about the scraper session *)

\* C30: the scraper enforces its call order: get_user_courses and
\* connect_to_course raise RuntimeError unless an earlier login returned;
\* get_all_posts, get_post_by_id and get_course_instructors raise
\* RuntimeError unless an earlier connect_to_course obtained a network; a
\* login that fails never marks the session authenticated, and no network
\* is held without a login.
C30_CallOrderEnforced ==
    /\ authenticated => logged_in
    /\ (network # None) <=> connected
    /\ connected => logged_in
    /\ (outcome.op \in {"get_user_courses", "connect_to_course"}
        /\ ~logged_in) => outcome.result = "RuntimeError"
    /\ (outcome.op \in {"get_all_posts", "get_post_by_id",
                         "get_course_instructors"}
        /\ ~connected) => outcome.result = "RuntimeError"

\* a login has failed, nothing is authenticated, and the call that came
\* after it was refused
C30_Witness ==
    /\ outcome.op = "connect_to_course"
    /\ outcome.result = "RuntimeError"
    /\ ~authenticated /\ ~logged_in /\ password = Wrong

====
